---------------------------- MODULE Spec2Model ----------------------------
(***************************************************************************)
(* Model of the calendar/registry middleware of src/cal_middleware.js:     *)
(* POST /create-event and POST /update-alchemy of its first server (lines  *)
(* 1-229) and PUT /update-alchemy of its second (lines 231-369), with the  *)
(* date conversions (luxon) and the record-id regular expression computed  *)
(* as the code computes them.  The earlier POST /update-alchemy of         *)
(* src/unnamed/part_000 (lines 1-93) has a specification of its own.       *)
(*                                                                         *)
(* Time is counted in minutes.  Minute 0 is 2025-11-02T00:00Z, the day     *)
(* America/New_York leaves daylight-saving time (at 06:00Z).               *)
(*                                                                         *)
(* A display string "MMM dd yyyy hh:mm a" is the record                    *)
(*   [kind |-> "display", day, hh, mm, a]  (day: days since minute 0).     *)
(* An ISO string is [kind |-> "iso", wall, off, zulu]: the wall-clock      *)
(* minutes written in the text, the offset written after them, and         *)
(* whether the offset is written as "Z".  null/undefined are records of    *)
(* kind "null" / "missing".                                                *)
(***************************************************************************)
EXTENDS Integers, Sequences, FiniteSets

\* ----------------------------------------------------------------- bounds

\* Requests the server receives in one behaviour.
MaxReqs == 2
\* Longest event description of an /update-alchemy request body.
MaxDescLen == 2
\* Longest text given to the record-id expression on its own.
MaxTextLen == 5
\* Last day (counted from minute 0) a display string may name.
MaxDay == 1
\* Requests the server handles at the same time.
MaxConc == 2

\* ------------------------------------------------------------ JS values

Missing == [kind |-> "missing"]
Null == [kind |-> "null"]

Min(S) == CHOOSE x \in S : \A y \in S : x <= y
Max(S) == CHOOSE x \in S : \A y \in S : y <= x

\* ------------------------------------------------------------- luxon

HourMinutes == 60
DayMinutes == 24 * HourMinutes

NewYork == "America/New_York"
Tokyo == "Asia/Tokyo"
Utc == "UTC"
Zones == {NewYork, Utc, Tokyo}

\* The instant America/New_York falls back from -04:00 to -05:00.
DstEnd == 6 * HourMinutes

\* The offset from UTC, in minutes, zone z has at an instant.
ZoneOffset(z, instant) ==
    CASE z = NewYork -> IF instant < DstEnd THEN -(4 * HourMinutes) ELSE -(5 * HourMinutes)
      [] z = Tokyo -> 9 * HourMinutes
      [] OTHER -> 0

\* A luxon DateTime: an instant and the zone it is shown in.
Invalid == [kind |-> "invalid"]
DateTimeOf(instant, z) == [kind |-> "datetime", instant |-> instant, zone |-> z]
LocalWall(dt) == dt.instant + ZoneOffset(dt.zone, dt.instant)

Meridiems == {"AM", "PM"}
DisplayOf(day, hh, mm, a) == [kind |-> "display", day |-> day, hh |-> hh, mm |-> mm, a |-> a]
Garbage == [kind |-> "garbage"]

\* The hour of the day a 12-hour clock reading names.
Hour24(hh, a) ==
    IF a = "PM" THEN (IF hh < 12 THEN hh + 12 ELSE hh)
    ELSE (IF hh = 12 THEN 0 ELSE hh)

\* The wall-clock minutes a display string names.
WallOfDisplay(s) == s.day * DayMinutes + Hour24(s.hh, s.a) * HourMinutes + s.mm

\* DateTime.fromFormat(s, "MMM dd yyyy hh:mm a", {zone: "UTC"}): the string
\* read as UTC wall-clock time.  A string of another shape gives an invalid
\* DateTime; undefined makes luxon throw, which convertAlchemyDate catches.
FromFormatUTC(s) ==
    IF s.kind # "display" THEN Invalid ELSE DateTimeOf(WallOfDisplay(s), Utc)

\* dt.toFormat("MMM dd yyyy hh:mm a")
ToFormat(dt) ==
    IF dt.kind # "datetime" THEN [kind |-> "text", text |-> "Invalid DateTime"]
    ELSE LET wall == LocalWall(dt)
             day == wall \div DayMinutes
             h24 == (wall % DayMinutes) \div HourMinutes
         IN DisplayOf(day,
                      IF h24 % 12 = 0 THEN 12 ELSE h24 % 12,
                      wall % HourMinutes,
                      IF h24 < 12 THEN "AM" ELSE "PM")

\* dt.setZone(z, {keepLocalTime: false}): the same instant, shown in z.
SetZone(dt, z) == IF dt.kind # "datetime" THEN Invalid ELSE DateTimeOf(dt.instant, z)

\* dt.plus({hours: n})
PlusHours(dt, n) ==
    IF dt.kind # "datetime" THEN Invalid
    ELSE DateTimeOf(dt.instant + n * HourMinutes, dt.zone)

\* dt.toISO(): wall-clock time and offset; "Z" for the UTC zone; null when
\* the DateTime is invalid.
ToISO(dt) ==
    IF dt.kind # "datetime" THEN Null
    ELSE [kind |-> "iso", wall |-> LocalWall(dt),
          off |-> ZoneOffset(dt.zone, dt.instant), zulu |-> dt.zone = Utc]

\* The instant an ISO string names.
InstantOfISO(iso) == iso.wall - iso.off

\* DateTime.fromISO(x, {zone: z}): the string's instant shown in z; null and
\* undefined do not parse.
FromISO(x, z) ==
    IF x.kind # "iso" THEN Invalid ELSE DateTimeOf(InstantOfISO(x), z)

\* ------------------------------------------------- cal_middleware.js

DefaultZone == NewYork

\* convertAlchemyDate(dateString, timeZone): null for what does not parse.
convertAlchemyDate(dateString, timeZone) ==
    LET date == FromFormatUTC(dateString)
    IN IF date.kind # "datetime" THEN Null
       ELSE ToISO(SetZone(date, timeZone))

\* The order of the offset texts "+hh:mm" < "-hh:mm" < "Z" as strings.
SuffixKey(iso) ==
    IF iso.zulu THEN 3 * DayMinutes
    ELSE IF iso.off >= 0 THEN DayMinutes + iso.off
    ELSE 2 * DayMinutes - iso.off

\* JavaScript's a <= b on values that are ISO strings or null: two strings
\* compare as text, null <= null is 0 <= 0, and a string against null is a
\* comparison with NaN.
JsLeq(a, b) ==
    IF a.kind = "iso" /\ b.kind = "iso"
    THEN a.wall < b.wall \/ (a.wall = b.wall /\ SuffixKey(a) <= SuffixKey(b))
    ELSE a.kind = "null" /\ b.kind = "null"

\* Lines 110-114: the end the create path sends, given both conversions.
\* DateTime.fromISO without a zone shows the result in the server's zone.
AdjustedEnd(formattedStartUse, formattedEndUse, sysZone) ==
    IF JsLeq(formattedEndUse, formattedStartUse)
    THEN ToISO(PlusHours(FromISO(formattedStartUse, sysZone), 1))
    ELSE formattedEndUse

\* ------------------------------------------------ the record-id expression

\* The characters texts are made of: two digits, a letter, a hyphen, a space.
Digits == {"4", "7"}
Letters == {"A"}
Chars == Digits \cup Letters \cup {"-", " "}

\* \w of a JavaScript regular expression: letters, digits and underscore.
IsWordChar(c) == c \notin {"-", " "}
IsDigit(c) == c \in Digits

\* Texts of at most n characters.
Texts(n) == UNION {[1..k -> Chars] : k \in 0..n}

\* \b before position i of s: exactly one of the characters around it is a
\* word character.
WordAt(s, i) == i \in 1..Len(s) /\ IsWordChar(s[i])
\* The expression written without its \b: /\d+/.
BoundaryAnywhere(s, i) == TRUE
BoundaryAt(s, i) == WordAt(s, i - 1) # WordAt(s, i)

\* The ends j at which /\b\d+\b/ can match s from position i.
MatchEnds(s, i) ==
    {j \in i..Len(s) : /\ \A k \in i..j : IsDigit(s[k])
                       /\ BoundaryAt(s, i)
                       /\ BoundaryAt(s, j + 1)}
MatchStarts(s) == {i \in 1..Len(s) : MatchEnds(s, i) # {}}

\* match()'s null.  \d+ matches no empty text, so <<>> is free to stand for it.
NoMatch == <<>>

\* The expression read to its last match instead of its first.
RecordIdMatchLast(s) ==
    IF MatchStarts(s) = {} THEN NoMatch
    ELSE LET i == Max(MatchStarts(s))
         IN SubSeq(s, i, Max(MatchEnds(s, i)))

\* description.match(/\b\d+\b/)[0]: the leftmost match, the digits taken
\* greedily; NoMatch when match() returns null.
RecordIdMatch(s) ==
    IF MatchStarts(s) = {} THEN NoMatch
    ELSE LET i == Min(MatchStarts(s))
         IN SubSeq(s, i, Max(MatchEnds(s, i)))

\* ------------------------------------------------------ request bodies

Text(chars) == [kind |-> "text", chars |-> chars]

\* The display strings requests carry: both sides of the fall-back instant,
\* and an afternoon pair an hour apart the wrong way round.
SampleDisplays ==
    {DisplayOf(0, 5, 30, "AM"), DisplayOf(0, 6, 0, "AM"),
     DisplayOf(0, 2, 30, "PM"), DisplayOf(0, 2, 0, "PM")}
DateInputs == SampleDisplays \cup {Garbage, Missing}

\* "" stands for a timeZone (or an id) that is absent or empty: both are falsy.
ZoneInputs == Zones \cup {""}

CreateDescriptions == {Missing, Text(<<>>), Text(<<"4", "7">>), Text(<<"A">>)}

\* The record id a registry record is sent with; no handler reads it.
RecordIds == {Missing, Text(<<"4", "7">>)}

CreateBodies ==
    [recordId : RecordIds, StartUse : DateInputs, EndUse : DateInputs,
     timeZone : ZoneInputs, description : CreateDescriptions]

\* The start or end of a calendar event: {dateTime, timeZone}.
EventTime(iso, z) == [kind |-> "time", dateTime |-> iso, timeZone |-> z]
EventTimes ==
    {EventTime(convertAlchemyDate(s, z), z) :
        s \in {DisplayOf(0, 5, 30, "AM"), DisplayOf(0, 2, 30, "PM")},
        z \in {NewYork, Utc}}
\* The start or end of an all-day event: {date}, with no dateTime.
AllDay == EventTime(Missing, "")

UpdateBodies ==
    [id : {"", "evt1"}, start : EventTimes \cup {AllDay, Missing},
     end : EventTimes \cup {AllDay, Missing},
     description : {Missing} \cup {Text(s) : s \in Texts(MaxDescLen)}]

\* ------------------------------------------------------------ requests

\* What a remote API call can come back with: a 2xx reply, a 401, another
\* non-2xx reply, or fetch()/json() throwing.
ApiReplies == {"ok", "unauthorized", "notOk", "throw"}
\* What a token call can come back with: a 2xx reply with the token, a 2xx
\* reply without it, a non-2xx reply, or fetch()/json() throwing.
TokenReplies == {"ok", "noToken", "notOk", "throw"}
\* What becomes of an exception thrown by an async handler outside its try:
\* Express 4 leaves the promise rejected and sends nothing, Express 5 hands it
\* to the default error handler, which answers 500.
UnhandledOutcomes == {"dropped", "errorHandler"}

\* The tenant the second server is configured for, and another one.
TENANT_NAME == "productcaseelnlims4uat"
Tenants == {TENANT_NAME, "othertenant"}
\* What a call of the registry's refresh endpoint can come back with:
\* fetch()/json() throwing, a non-2xx reply, or a 2xx reply whose data has a
\* token field or not, and a tokens array (listing some tenants) or not.
RefreshReplies ==
    {[status |-> "throw", token |-> FALSE, hasTokens |-> FALSE, tenants |-> {}],
     [status |-> "notOk", token |-> FALSE, hasTokens |-> FALSE, tenants |-> {}]}
    \cup {[status |-> "ok", token |-> t, hasTokens |-> FALSE, tenants |-> {}] :
            t \in BOOLEAN}
    \cup [status : {"ok"}, token : BOOLEAN, hasTokens : {TRUE}, tenants : SUBSET Tenants]
NoReply == [status |-> "none", token |-> FALSE, hasTokens |-> FALSE, tenants |-> {}]

NoToken == 0

NoPayload == [kind |-> "missing", recordId |-> <<>>, fields |-> <<>>]

IdleRequest ==
    [route |-> "none", body |-> Missing, pc |-> "idle", accessToken |-> NoToken,
     exchange |-> 0, tokenFetches |-> 0, payload |-> NoPayload,
     calendarCalls |-> <<>>, updateCalls |-> <<>>, replies |-> <<>>,
     tokenReply |-> NoReply, responses |-> <<>>]

\* res.status(code).json(...) and the handler returning.
Respond(rq, code) ==
    [rq EXCEPT !.pc = "done", !.responses = Append(@, code)]

NoDescription == <<"N", "o", " ", "D", "e", "s", "c", "r", "i", "p", "t", "i", "o", "n">>

\* x || fallback on a description: undefined and "" are falsy.
DescriptionOr(d, fallback) ==
    IF d.kind = "text" /\ d.chars # <<>> THEN d.chars ELSE fallback

\* Lines 104-130: the event the create path builds.
EventBody(b, sysZone) ==
    LET timeZone == IF b.timeZone # "" THEN b.timeZone ELSE DefaultZone
        formattedStartUse == convertAlchemyDate(b.StartUse, timeZone)
        formattedEndUse == convertAlchemyDate(b.EndUse, timeZone)
    IN [description |-> DescriptionOr(b.description, NoDescription),
        start |-> EventTime(formattedStartUse, timeZone),
        end |-> EventTime(AdjustedEnd(formattedStartUse, formattedEndUse, sysZone),
                          timeZone)]

\* The handler with a token cache: only the first request calls the token
\* endpoint, the later ones wait for the token already held.
CreateEventEntryCached(b, exchange) ==
    IF exchange > 1
    THEN [IdleRequest EXCEPT !.route = "create", !.body = b, !.pc = "awaitGoogleToken",
                             !.exchange = 1, !.tokenFetches = 0]
    ELSE [IdleRequest EXCEPT !.route = "create", !.body = b, !.pc = "awaitGoogleToken",
                             !.exchange = exchange, !.tokenFetches = 1]

\* Lines 95-98: the handler starts by calling getGoogleAccessToken, which
\* fetches the token endpoint; exchange numbers that call.
CreateEventEntry(b, exchange) ==
    [IdleRequest EXCEPT !.route = "create", !.body = b, !.pc = "awaitGoogleToken",
                        !.exchange = exchange, !.tokenFetches = 1]

\* Lines 59-68: what getGoogleAccessToken returns for a reply; the token of
\* exchange n is n.
GoogleAccessToken(reply, exchange) == IF reply = "ok" THEN exchange ELSE NoToken

\* Lines 98-148: with a token, build the event and post it to the calendar.
CreateEventOnToken(rq, accessToken, sysZone) ==
    IF accessToken = NoToken THEN Respond(rq, 500)
    ELSE [rq EXCEPT !.accessToken = accessToken, !.pc = "awaitCalendar",
                    !.calendarCalls =
                        Append(@, [token |-> accessToken,
                                   event |-> EventBody(rq.body, sysZone)])]

\* The handler with a retry: a first 401 sends it back for a new token.
CreateEventOnReplyRetry(rq, reply) ==
    IF reply = "unauthorized" /\ rq.replies = <<>>
    THEN [rq EXCEPT !.replies = Append(@, reply), !.pc = "awaitGoogleToken",
                    !.tokenFetches = @ + 1]
    ELSE Respond([rq EXCEPT !.replies = Append(@, reply)],
                 IF reply = "ok" THEN 200 ELSE 500)

\* Lines 150-160: a non-2xx reply is thrown and caught with what else throws.
CreateEventOnReply(rq, reply) ==
    Respond([rq EXCEPT !.replies = Append(@, reply)],
            IF reply = "ok" THEN 200 ELSE 500)

\* Lines 186-192: the registry update the update path builds.
Field(identifier, value) ==
    [identifier |-> identifier,
     rows |-> <<[row |-> 0, values |-> <<[value |-> value]>>]>>]
\* The payload with a third field written along with the two.
AlchemyPayloadWithStatus(b) ==
    [kind |-> "payload", recordId |-> RecordIdMatch(b.description.chars),
     fields |-> <<Field("StartUse", ToFormat(FromISO(b.start.dateTime, b.start.timeZone))),
                  Field("EndUse", ToFormat(FromISO(b.end.dateTime, b.end.timeZone))),
                  Field("Status", Text(<<"A">>))>>]
AlchemyPayload(b) ==
    [kind |-> "payload", recordId |-> RecordIdMatch(b.description.chars),
     fields |-> <<Field("StartUse", ToFormat(FromISO(b.start.dateTime, b.start.timeZone))),
                  Field("EndUse", ToFormat(FromISO(b.end.dateTime, b.end.timeZone)))>>]

\* The handler without the return of line 175: it goes on with no record id.
UpdateAlchemyEntryUnchecked(b, onThrow) ==
    LET rq == [IdleRequest EXCEPT !.route = "update", !.body = b]
    IN IF b.id = "" \/ b.start.kind = "missing" \/ b.end.kind = "missing"
       THEN Respond(rq, 400)
       ELSE IF b.description.kind = "missing"
       THEN (IF onThrow = "dropped" THEN [rq EXCEPT !.pc = "crashed"]
             ELSE Respond(rq, 500))
       ELSE [rq EXCEPT !.payload = AlchemyPayload(b), !.pc = "awaitAlchemyToken",
                       !.tokenFetches = 1]

\* Lines 164-196: validation, the record id, the payload, and the call of
\* getAlchemyAccessToken, which fetches the refresh endpoint.  Reading
\* .match of an undefined description throws outside the try block.
UpdateAlchemyEntry(b, onThrow) ==
    LET rq == [IdleRequest EXCEPT !.route = "update", !.body = b]
    IN IF b.id = "" \/ b.start.kind = "missing" \/ b.end.kind = "missing"
       THEN Respond(rq, 400)
       ELSE IF b.description.kind = "missing"
       THEN (IF onThrow = "dropped" THEN [rq EXCEPT !.pc = "crashed"]
             ELSE Respond(rq, 500))
       ELSE IF RecordIdMatch(b.description.chars) = NoMatch
       THEN Respond(rq, 400)
       ELSE [rq EXCEPT !.payload = AlchemyPayload(b), !.pc = "awaitAlchemyToken",
                       !.tokenFetches = 1]

\* Lines 80-91: what getAlchemyAccessToken returns for a reply: data.token
\* of a 2xx reply (undefined when the reply has none), null otherwise.
AlchemyAccessToken(reply, refresh) ==
    IF reply.status = "ok" /\ reply.token THEN refresh ELSE NoToken

\* Lines 196-209: with a token, post the payload to the registry.
UpdateAlchemyOnToken(rq, updatedAlchemyToken) ==
    IF updatedAlchemyToken = NoToken THEN Respond(rq, 500)
    ELSE [rq EXCEPT !.accessToken = updatedAlchemyToken, !.pc = "awaitUpdate",
                    !.updateCalls =
                        Append(@, [token |-> updatedAlchemyToken,
                                   payload |-> rq.payload])]

\* Lines 211-222: a non-2xx reply is thrown and caught with what else throws.
UpdateAlchemyOnReply(rq, reply) ==
    Respond([rq EXCEPT !.replies = Append(@, reply)],
            IF reply = "ok" THEN 200 ELSE 500)

\* ------------------------------- cal_middleware.js, the second server

\* date.toFormat("yyyy-MM-dd'T'HH:mm:ss'Z'"): the wall-clock time of the
\* DateTime in its zone, followed by a literal Z.
ToFormatZ(dt) ==
    IF dt.kind # "datetime" THEN [kind |-> "text", text |-> "Invalid DateTime"]
    ELSE [kind |-> "iso", wall |-> LocalWall(dt), off |-> 0, zulu |-> TRUE]

\* convertToAlchemyFormat(dateString): null for what does not parse.
convertToAlchemyFormat(dateString) ==
    LET date == FromISO(dateString, Utc)
    IN IF date.kind # "datetime" THEN Null ELSE ToFormatZ(date)

\* The function without its tenant check: any listed tenant's token will do.
refreshAlchemyTokenAnyTenant(reply, refresh) ==
    IF reply.status = "ok" /\ reply.hasTokens /\ reply.tenants # {}
    THEN refresh ELSE NoToken

\* Lines 275-293: what refreshAlchemyToken returns for a reply: the access
\* token listed for TENANT_NAME; null when the reply is not 2xx, when
\* data.tokens is undefined (find throws) and when the tenant is not listed.
refreshAlchemyToken(reply, refresh) ==
    IF reply.status = "ok" /\ reply.hasTokens /\ TENANT_NAME \in reply.tenants
    THEN refresh ELSE NoToken

\* Lines 327-339: the registry update the second server builds.
AlchemyPayloadPut(b) ==
    [kind |-> "payload", recordId |-> RecordIdMatch(b.description.chars),
     fields |-> <<Field("StartUse", convertToAlchemyFormat(b.start.dateTime)),
                  Field("EndUse", convertToAlchemyFormat(b.end.dateTime))>>]

\* Lines 297-322: validation, the record id, the two conversions, and the
\* call of refreshAlchemyToken, which fetches the refresh endpoint.  Reading
\* .match of an undefined description throws, and the handler has no try
\* block around it.
UpdateAlchemyPutEntry(b, onThrow) ==
    LET rq == [IdleRequest EXCEPT !.route = "updatePut", !.body = b]
    IN IF b.id = "" \/ b.start.kind = "missing" \/ b.end.kind = "missing"
       THEN Respond(rq, 400)
       ELSE IF b.description.kind = "missing"
       THEN (IF onThrow = "dropped" THEN [rq EXCEPT !.pc = "crashed"]
             ELSE Respond(rq, 500))
       ELSE IF RecordIdMatch(b.description.chars) = NoMatch
       THEN Respond(rq, 400)
       ELSE IF \/ convertToAlchemyFormat(b.start.dateTime).kind = "null"
               \/ convertToAlchemyFormat(b.end.dateTime).kind = "null"
       THEN Respond(rq, 400)
       ELSE [rq EXCEPT !.payload = AlchemyPayloadPut(b), !.pc = "awaitRefresh",
                       !.tokenFetches = 1]

\* Lines 322-349: with a token, put the payload to the registry.
UpdateAlchemyPutOnToken(rq, alchemyToken) ==
    IF alchemyToken = NoToken THEN Respond(rq, 500)
    ELSE [rq EXCEPT !.accessToken = alchemyToken, !.pc = "awaitUpdatePut",
                    !.updateCalls =
                        Append(@, [token |-> alchemyToken, payload |-> rq.payload])]

\* Lines 351-362: a non-2xx reply is thrown and caught with what else throws.
UpdateAlchemyPutOnReply(rq, reply) ==
    Respond([rq EXCEPT !.replies = Append(@, reply)],
            IF reply = "ok" THEN 200 ELSE 500)

\* --------------------------------------------------------- the server

VARIABLES
    systemZone,   \* the zone of the server process
    req,          \* the request being handled, or the last one handled
    received,     \* requests received so far, by route
    tokenCalls,   \* calls of each token endpoint so far
    accepted,     \* API calls each provider has answered 2xx so far
    trip,         \* a display string on its way to the calendar and back
    scan,         \* a text and what the record-id expression finds in it
    pool          \* the requests being handled at the same time

vars == <<systemZone, req, received, tokenCalls, accepted, trip, scan, pool>>

NoTrip == [stage |-> "none"]
NoScan == [stage |-> "none"]
NoPool == [reqs |-> <<>>, alive |-> TRUE]

SystemZones == {Utc, NewYork}

Init ==
    /\ systemZone \in SystemZones
    /\ req = IdleRequest
    /\ received = [create |-> 0, update |-> 0]
    /\ tokenCalls = [google |-> 0, alchemy |-> 0]
    /\ accepted = [google |-> 0, alchemy |-> 0]
    /\ trip = NoTrip
    /\ scan = NoScan
    /\ pool = NoPool

\* The client sends its requests one after the other.
CanReceive ==
    /\ req.pc = "idle"
    /\ received.create + received.update < MaxReqs

ReceiveCreateEvent ==
    /\ CanReceive
    /\ \E b \in CreateBodies : req' = CreateEventEntry(b, tokenCalls.google + 1)
    /\ received' = [received EXCEPT !.create = @ + 1]
    /\ tokenCalls' = [tokenCalls EXCEPT !.google = @ + req'.tokenFetches]
    /\ UNCHANGED <<systemZone, accepted, trip, scan, pool>>

GoogleTokenReply ==
    /\ req.pc = "awaitGoogleToken"
    /\ \E reply \in TokenReplies :
          req' = CreateEventOnToken(req, GoogleAccessToken(reply, req.exchange), systemZone)
    /\ UNCHANGED <<systemZone, received, tokenCalls, accepted, trip, scan, pool>>

CalendarReply ==
    /\ req.pc = "awaitCalendar"
    /\ \E reply \in ApiReplies :
          /\ req' = CreateEventOnReply(req, reply)
          /\ accepted' = [accepted EXCEPT !.google = @ + (IF reply = "ok" THEN 1 ELSE 0)]
    /\ UNCHANGED <<systemZone, received, tokenCalls, trip, scan, pool>>

ReceiveUpdateAlchemy ==
    /\ CanReceive
    /\ \E b \in UpdateBodies : \E onThrow \in UnhandledOutcomes :
          req' = [UpdateAlchemyEntry(b, onThrow) EXCEPT !.exchange = tokenCalls.alchemy + 1]
    /\ received' = [received EXCEPT !.update = @ + 1]
    /\ tokenCalls' = [tokenCalls EXCEPT !.alchemy = @ + req'.tokenFetches]
    /\ UNCHANGED <<systemZone, accepted, trip, scan, pool>>

AlchemyTokenReply ==
    /\ req.pc = "awaitAlchemyToken"
    /\ \E reply \in RefreshReplies :
          req' = UpdateAlchemyOnToken(req, AlchemyAccessToken(reply, req.exchange))
    /\ UNCHANGED <<systemZone, received, tokenCalls, accepted, trip, scan, pool>>

UpdateReply ==
    /\ req.pc = "awaitUpdate"
    /\ \E reply \in ApiReplies :
          /\ req' = UpdateAlchemyOnReply(req, reply)
          /\ accepted' = [accepted EXCEPT !.alchemy = @ + (IF reply = "ok" THEN 1 ELSE 0)]
    /\ UNCHANGED <<systemZone, received, tokenCalls, trip, scan, pool>>

ReceiveUpdateAlchemyPut ==
    /\ CanReceive
    /\ \E b \in UpdateBodies : \E onThrow \in UnhandledOutcomes :
          req' = [UpdateAlchemyPutEntry(b, onThrow) EXCEPT !.exchange = tokenCalls.alchemy + 1]
    /\ received' = [received EXCEPT !.update = @ + 1]
    /\ tokenCalls' = [tokenCalls EXCEPT !.alchemy = @ + req'.tokenFetches]
    /\ UNCHANGED <<systemZone, accepted, trip, scan, pool>>

RefreshReply ==
    /\ req.pc = "awaitRefresh"
    /\ \E reply \in RefreshReplies :
          req' = UpdateAlchemyPutOnToken([req EXCEPT !.tokenReply = reply],
                                         refreshAlchemyToken(reply, req.exchange))
    /\ UNCHANGED <<systemZone, received, tokenCalls, accepted, trip, scan, pool>>

UpdatePutReply ==
    /\ req.pc = "awaitUpdatePut"
    /\ \E reply \in ApiReplies :
          /\ req' = UpdateAlchemyPutOnReply(req, reply)
          /\ accepted' = [accepted EXCEPT !.alchemy = @ + (IF reply = "ok" THEN 1 ELSE 0)]
    /\ UNCHANGED <<systemZone, received, tokenCalls, trip, scan, pool>>

\* The handler's promise has settled and the request is let go of.
Settle ==
    /\ req.pc \in {"done", "crashed"}
    /\ req' = IdleRequest
    /\ UNCHANGED <<systemZone, received, tokenCalls, accepted, trip, scan, pool>>

Next ==
    \/ ReceiveCreateEvent
    \/ GoogleTokenReply
    \/ CalendarReply
    \/ ReceiveUpdateAlchemy
    \/ AlchemyTokenReply
    \/ UpdateReply
    \/ ReceiveUpdateAlchemyPut
    \/ RefreshReply
    \/ UpdatePutReply
    \/ Settle

Spec == Init /\ [][Next]_vars

\* The server under the scheduling node guarantees: a handler whose promise
\* has settled is let go of.  Every other step of a handler is the
\* continuation of an await of fetch(), which runs when the remote side
\* replies; no fetch() is given a timeout or an abort signal and no timer is
\* set, so nothing makes those steps happen when the remote side is silent.
SpecFair == Spec /\ WF_vars(Settle)

\* -------------------------- src/unnamed/part_000, the first server

\* process.env.ALCHEMY_ACCESS_TOKEN: the one token this server ever uses.
EnvAccessToken == 1

UpdateRecordBodies ==
    [recordId : RecordIds, start : EventTimes \cup {AllDay, Missing},
     end : EventTimes \cup {AllDay, Missing}]

\* formatDateForAlchemy(isoDateTime): always shown in America/New_York.
formatDateForAlchemy(isoDateTime) == ToFormat(FromISO(isoDateTime, NewYork))

\* part_000 lines 19-57 and 69-80: validation, the payload, and the update
\* call, made with the token of the environment.
UpdateRecordEntry(b) ==
    LET rq == [IdleRequest EXCEPT !.route = "updateRecord", !.body = b]
        payload == [kind |-> "payload", recordId |-> b.recordId.chars,
                    fields |-> <<Field("StartUse", formatDateForAlchemy(b.start.dateTime)),
                                 Field("EndUse", formatDateForAlchemy(b.end.dateTime))>>]
    IN IF b.recordId.kind = "missing" \/ b.start.kind = "missing" \/ b.end.kind = "missing"
       THEN Respond(rq, 400)
       ELSE [rq EXCEPT !.payload = payload, !.pc = "awaitUpdateRecord",
                       !.accessToken = EnvAccessToken,
                       !.updateCalls = <<[token |-> EnvAccessToken, payload |-> payload]>>]

\* part_000 lines 59-65 and 80-82: updateAlchemyRecord returns the reply's
\* data without reading response.ok, and null when fetch()/json() throws;
\* the handler answers 200 with whatever came back.
UpdateRecordOnReply(rq, reply) ==
    Respond([rq EXCEPT !.replies = Append(@, reply)], 200)

\* ------------------------------------- a display string there and back

\* Every display string of days 0..MaxDay, on the hour and the half hour.
DisplayStrings ==
    {DisplayOf(day, hh, mm, a) :
        day \in 0..MaxDay, hh \in 1..12, mm \in {0, 30}, a \in Meridiems}

TripBodies ==
    [recordId : {Text(<<"4", "7">>)}, StartUse : DisplayStrings, EndUse : SampleDisplays, timeZone : Zones,
     description : {Text(<<"4", "7">>)}]

ServerIdle ==
    /\ systemZone \in SystemZones
    /\ req = IdleRequest
    /\ received = [create |-> 0, update |-> 0]
    /\ tokenCalls = [google |-> 0, alchemy |-> 0]
    /\ accepted = [google |-> 0, alchemy |-> 0]

InitTrip ==
    /\ ServerIdle
    /\ scan = NoScan
    /\ pool = NoPool
    /\ trip \in {[stage |-> "display", body |-> b, event |-> Missing, payload |-> Missing] :
                  b \in TripBodies}

\* The create path turns the record into the event it posts.
ToCalendar ==
    /\ trip.stage = "display"
    /\ trip' = [trip EXCEPT !.stage = "calendar",
                            !.event = EventBody(trip.body, systemZone)]
    /\ UNCHANGED <<systemZone, req, received, tokenCalls, accepted, scan, pool>>

\* The calendar sends the event back and the update path turns it into the
\* registry update.
ToDisplay ==
    /\ trip.stage = "calendar"
    /\ trip' = [trip EXCEPT !.stage = "back",
                            !.payload = AlchemyPayload(
                                [id |-> "evt1", start |-> trip.event.start,
                                 end |-> trip.event.end,
                                 description |-> Text(trip.event.description)])]
    /\ UNCHANGED <<systemZone, req, received, tokenCalls, accepted, scan, pool>>

NextTrip == ToCalendar \/ ToDisplay

SpecRoundTrip == InitTrip /\ [][NextTrip]_vars

\* ------------------------------------------- the server of part_000

ReceiveUpdateRecord ==
    /\ CanReceive
    /\ \E b \in UpdateRecordBodies : req' = UpdateRecordEntry(b)
    /\ received' = [received EXCEPT !.update = @ + 1]
    /\ UNCHANGED <<systemZone, tokenCalls, accepted, trip, scan, pool>>

UpdateRecordReply ==
    /\ req.pc = "awaitUpdateRecord"
    /\ \E reply \in ApiReplies :
          /\ req' = UpdateRecordOnReply(req, reply)
          /\ accepted' = [accepted EXCEPT !.alchemy = @ + (IF reply = "ok" THEN 1 ELSE 0)]
    /\ UNCHANGED <<systemZone, received, tokenCalls, trip, scan, pool>>

NextUpdateRecord == ReceiveUpdateRecord \/ UpdateRecordReply \/ Settle

SpecUpdateRecord == Init /\ [][NextUpdateRecord]_vars

\* The value a registry update writes to field k.
FieldValue(payload, k) == payload.fields[k].rows[1].values[1].value

\* ------------------------------------- requests at the same time

Slots == 1..MaxConc

\* What becomes of the process when an async handler throws outside its
\* try: as UnhandledOutcomes, and under Express 4 on node 15 or later the
\* unhandled rejection is raised as an uncaught exception and the process
\* exits.
ProcessOutcomes == UnhandledOutcomes \cup {"exit"}

\* A few of CreateBodies and of UpdateBodies: a good request, one with a
\* date that does not parse, one with no record id in its description, one
\* with no description.
ConcCreateBodies ==
    [recordId : {Text(<<"4", "7">>)}, StartUse : {DisplayOf(0, 2, 0, "PM")},
     EndUse : {DisplayOf(0, 2, 30, "PM"), Garbage}, timeZone : {NewYork},
     description : {Text(<<"4", "7">>)}]
ConcUpdateBodies ==
    [id : {"evt1"},
     start : {EventTime(convertAlchemyDate(DisplayOf(0, 2, 30, "PM"), NewYork), NewYork)},
     end : {EventTime(convertAlchemyDate(DisplayOf(0, 2, 30, "PM"), NewYork), NewYork)},
     description : {Missing, Text(<<"4">>), Text(<<"A">>)}]

InitConcurrent ==
    /\ ServerIdle
    /\ trip = NoTrip
    /\ scan = NoScan
    /\ pool = [reqs |-> [i \in Slots |-> IdleRequest], alive |-> TRUE]

\* The handler is between its first await and its response.
InFlight(rq) == rq.pc \notin {"idle", "done", "crashed", "aborted"}

\* The process exits: every request in flight loses its connection and is
\* never answered.
ExitProcess(reqs) ==
    [i \in Slots |-> IF InFlight(reqs[i]) THEN [reqs[i] EXCEPT !.pc = "aborted"]
                     ELSE reqs[i]]

ConcReceiveCreateEvent ==
    /\ pool.alive
    /\ \E i \in {k \in Slots : pool.reqs[k].pc = "idle"} : \E b \in ConcCreateBodies :
          /\ pool' = [pool EXCEPT !.reqs[i] = CreateEventEntry(b, tokenCalls.google + 1)]
          /\ tokenCalls' = [tokenCalls EXCEPT !.google = @ + pool'.reqs[i].tokenFetches]
    /\ UNCHANGED <<systemZone, req, received, accepted, trip, scan>>

ConcGoogleTokenReply ==
    /\ pool.alive
    /\ \E i \in {k \in Slots : pool.reqs[k].pc = "awaitGoogleToken"} :
       \E reply \in TokenReplies :
          /\ pool' = [pool EXCEPT !.reqs[i] =
                         CreateEventOnToken(@, GoogleAccessToken(reply, @.exchange),
                                            systemZone)]
    /\ UNCHANGED <<systemZone, req, received, tokenCalls, accepted, trip, scan>>

ConcCalendarReply ==
    /\ pool.alive
    /\ \E i \in {k \in Slots : pool.reqs[k].pc = "awaitCalendar"} :
       \E reply \in ApiReplies :
          /\ pool' = [pool EXCEPT !.reqs[i] = CreateEventOnReply(@, reply)]
    /\ UNCHANGED <<systemZone, req, received, tokenCalls, accepted, trip, scan>>

ConcReceiveUpdateAlchemy ==
    /\ pool.alive
    /\ \E i \in {k \in Slots : pool.reqs[k].pc = "idle"} :
       \E b \in ConcUpdateBodies : \E onThrow \in ProcessOutcomes :
          LET rq == [UpdateAlchemyEntry(b, IF onThrow = "exit" THEN "dropped" ELSE onThrow)
                        EXCEPT !.exchange = tokenCalls.alchemy + 1]
              exits == rq.pc = "crashed" /\ onThrow = "exit"
          IN /\ pool' = [reqs |-> [(IF exits THEN ExitProcess(pool.reqs) ELSE pool.reqs)
                                      EXCEPT ![i] = rq],
                         alive |-> ~exits]
             /\ tokenCalls' = [tokenCalls EXCEPT !.alchemy = @ + rq.tokenFetches]
    /\ UNCHANGED <<systemZone, req, received, accepted, trip, scan>>

ConcAlchemyTokenReply ==
    /\ pool.alive
    /\ \E i \in {k \in Slots : pool.reqs[k].pc = "awaitAlchemyToken"} :
       \E reply \in RefreshReplies :
          /\ pool' = [pool EXCEPT !.reqs[i] =
                         UpdateAlchemyOnToken(@, AlchemyAccessToken(reply, @.exchange))]
    /\ UNCHANGED <<systemZone, req, received, tokenCalls, accepted, trip, scan>>

ConcUpdateReply ==
    /\ pool.alive
    /\ \E i \in {k \in Slots : pool.reqs[k].pc = "awaitUpdate"} :
       \E reply \in ApiReplies :
          /\ pool' = [pool EXCEPT !.reqs[i] = UpdateAlchemyOnReply(@, reply)]
    /\ UNCHANGED <<systemZone, req, received, tokenCalls, accepted, trip, scan>>

NextConcurrent ==
    \/ ConcReceiveCreateEvent
    \/ ConcGoogleTokenReply
    \/ ConcCalendarReply
    \/ ConcReceiveUpdateAlchemy
    \/ ConcAlchemyTokenReply
    \/ ConcUpdateReply

SpecConcurrent == InitConcurrent /\ [][NextConcurrent]_vars

\* ------------------------------------------ the record id of a text

\* Calendar events that differ in their description only.
ScanBodies ==
    [id : {"evt1"},
     start : {EventTime(convertAlchemyDate(DisplayOf(0, 2, 0, "PM"), NewYork), NewYork)},
     end : {EventTime(convertAlchemyDate(DisplayOf(0, 2, 30, "PM"), NewYork), NewYork)},
     description : {Text(s) : s \in Texts(MaxTextLen)}]

InitScan ==
    /\ ServerIdle
    /\ trip = NoTrip
    /\ pool = NoPool
    /\ scan \in {[stage |-> "text", body |-> b, request |-> IdleRequest] : b \in ScanBodies}

\* Lines 164-196 on the event: the handler up to its first await.
Extract ==
    /\ scan.stage = "text"
    /\ \E onThrow \in UnhandledOutcomes :
          scan' = [scan EXCEPT !.stage = "matched",
                               !.request = UpdateAlchemyEntry(scan.body, onThrow)]
    /\ UNCHANGED <<systemZone, req, received, tokenCalls, accepted, trip, pool>>

NextScan == Extract

SpecResolver == InitScan /\ [][NextScan]_vars

\* The record id a request goes on with; NoMatch when it was answered
\* "Record ID not found".
RecordIdOf(rq) == IF rq.payload.kind = "missing" THEN NoMatch ELSE rq.payload.recordId

\* ---------------------------------------------------------------- claims

\* The events the request being handled has posted to the calendar.
SentEvents == {req.calendarCalls[i].event : i \in 1..Len(req.calendarCalls)}

IsInstant(x) == x.kind = "iso"
StrictlyAfter(e, s) == IsInstant(e) /\ IsInstant(s) /\ InstantOfISO(e) > InstantOfISO(s)

\* C1: every event POST /create-event sends to the calendar has an end
\* instant strictly after its start instant, whatever StartUse and EndUse
\* are (unparseable and missing ones included).
C1_EndStrictlyAfterStart ==
    \A e \in SentEvents : StrictlyAfter(e.end.dateTime, e.start.dateTime)

\* C2: every event POST /create-event sends to the calendar carries a
\* description in which the record-id expression of /update-alchemy finds
\* an id.
C2_DescriptionCarriesRecordId ==
    \A e \in SentEvents : RecordIdMatch(e.description) # NoMatch

\* C3: in the create path, when the computed end is not strictly after the
\* computed start the end sent is start + exactly one hour, and when it is
\* after the start it is sent unchanged.
C3_EndCorrectedByOneHour ==
    req.route = "create" =>
        \A e \in SentEvents :
            LET timeZone == e.start.timeZone
                start == convertAlchemyDate(req.body.StartUse, timeZone)
                end == convertAlchemyDate(req.body.EndUse, timeZone)
            IN IF StrictlyAfter(end, start)
               THEN e.end.dateTime = end
               ELSE /\ IsInstant(e.end.dateTime) /\ IsInstant(start)
                    /\ InstantOfISO(e.end.dateTime) = InstantOfISO(start) + HourMinutes

\* C4: a valid display string s converted to calendar format in zone z by
\* the create path, and converted back to display format in zone z by the
\* update path, is s again.
C4_RoundTrip ==
    trip.stage = "back" => FieldValue(trip.payload, 1) = trip.body.StartUse

\* C5: the create path reads the display string as wall-clock time of the
\* given zone: start.dateTime shows the hour and minute of the display
\* string, with the offset the zone has then.
C5_StartIsLocalWallClock ==
    (req.route = "create" /\ req.body.StartUse.kind = "display") =>
        \A e \in SentEvents :
            /\ IsInstant(e.start.dateTime)
            /\ e.start.dateTime.wall = WallOfDisplay(req.body.StartUse)
            /\ e.start.dateTime.off =
                   ZoneOffset(e.start.timeZone, InstantOfISO(e.start.dateTime))

\* The digit runs of s that no letter, digit or underscore touches, as
\* <<first, last>> positions.
StandaloneRuns(s) ==
    {r \in (1..Len(s)) \X (1..Len(s)) :
        /\ r[1] <= r[2]
        /\ \A k \in r[1]..r[2] : s[k] \in Digits
        /\ (r[1] = 1 \/ s[r[1] - 1] \in {"-", " "})
        /\ (r[2] = Len(s) \/ s[r[2] + 1] \in {"-", " "})}
RunText(s, r) == SubSeq(s, r[1], r[2])
FirstRun(s) == CHOOSE r \in StandaloneRuns(s) : \A q \in StandaloneRuns(s) : r[1] <= q[1]
LastRun(s) == CHOOSE r \in StandaloneRuns(s) : \A q \in StandaloneRuns(s) : q[1] <= r[1]

ScanText == scan.body.description.chars

\* The numbers of s that stand between spaces (or the ends of s).
SpacedNumbers(s) ==
    {r \in StandaloneRuns(s) :
        /\ (r[1] = 1 \/ s[r[1] - 1] = " ")
        /\ (r[2] = Len(s) \/ s[r[2] + 1] = " ")}
LastSpacedNumber(s) == CHOOSE r \in SpacedNumbers(s) : \A q \in SpacedNumbers(s) : q[1] <= r[1]

\* C6 as claimed: with more than one standalone numeric token in the
\* description, the record id of the registry update is the last one.
C6_LastTokenWins ==
    (scan.stage = "matched" /\ Cardinality(SpacedNumbers(ScanText)) > 1
        /\ StandaloneRuns(ScanText) = SpacedNumbers(ScanText)) =>
        RecordIdOf(scan.request) = RunText(ScanText, LastSpacedNumber(ScanText))

\* C6 as amended: with more than one standalone numeric token in the
\* description, the record id of the registry update is the first one.
C6_FirstTokenWins ==
    (scan.stage = "matched" /\ Cardinality(StandaloneRuns(ScanText)) > 1) =>
        /\ scan.request.pc = "awaitAlchemyToken"
        /\ RecordIdOf(scan.request) = RunText(ScanText, FirstRun(ScanText))

\* Two tokens that differ, and the first one taken.
C6_Witness ==
    /\ scan.stage = "matched"
    /\ Cardinality(StandaloneRuns(ScanText)) > 1
    /\ RunText(ScanText, FirstRun(ScanText)) # RunText(ScanText, LastRun(ScanText))
    /\ RecordIdOf(scan.request) = RunText(ScanText, FirstRun(ScanText))

\* The space-delimited token around position i of s, as <<first, last>>.
TokenAround(s, i) ==
    <<Min({a \in 1..i : \A k \in a..i : s[k] # " "}),
      Max({b \in i..Len(s) : \A k \in i..b : s[k] # " "})>>
\* The maximal digit runs of s.
DigitRuns(s) ==
    {r \in (1..Len(s)) \X (1..Len(s)) :
        /\ r[1] <= r[2]
        /\ \A k \in r[1]..r[2] : s[k] \in Digits
        /\ (r[1] = 1 \/ s[r[1] - 1] \notin Digits)
        /\ (r[2] = Len(s) \/ s[r[2] + 1] \notin Digits)}
\* The run is part of a larger alphanumeric token such as "A-7".
InLargerToken(s, r) ==
    LET t == TokenAround(s, r[1]) IN \E k \in t[1]..t[2] : s[k] \in Letters

\* C7 as claimed: the record id is never a digit run that is part of a
\* larger alphanumeric token ("A-7"); when every digit run of the
\* description is part of one, no id is found.
C7_NeverPartOfLargerToken ==
    scan.stage = "matched" =>
        \/ RecordIdOf(scan.request) = NoMatch
        \/ \E r \in DigitRuns(ScanText) :
              /\ ~InLargerToken(ScanText, r)
              /\ RecordIdOf(scan.request) = RunText(ScanText, r)

\* C7 as amended: the record id is a digit run that no letter, digit or
\* underscore touches (a hyphen or a space may: the 7 of "A-7" counts), and
\* no id is found exactly when the description has no such run.
C7_WordBoundaryOnly ==
    scan.stage = "matched" =>
        IF StandaloneRuns(ScanText) = {}
        THEN scan.request.responses = <<400>> /\ RecordIdOf(scan.request) = NoMatch
        ELSE \E r \in StandaloneRuns(ScanText) :
                RecordIdOf(scan.request) = RunText(ScanText, r)

\* "A-7" gives 7, and "4 A-7" gives 4.
C7_Witness ==
    /\ scan.stage = "matched"
    /\ \/ ScanText = <<"A", "-", "7">> /\ RecordIdOf(scan.request) = <<"7">>
       \/ ScanText = <<"4", " ", "A", "-", "7">> /\ RecordIdOf(scan.request) = <<"4">>

\* C8: an /update-alchemy request whose description holds no record id is
\* answered 400 at once: no token refresh, no registry update, no retry.
C8_NoRecordIdAnswers400 ==
    (/\ req.route = "update"
     /\ req.body.description.kind = "text"
     /\ StandaloneRuns(req.body.description.chars) = {}) =>
        /\ req.pc = "done"
        /\ req.responses = <<400>>
        /\ req.tokenFetches = 0
        /\ req.updateCalls = <<>> /\ req.calendarCalls = <<>> /\ req.replies = <<>>

\* A well-formed event whose description has digits, none of them an id.
C8_Witness ==
    /\ req.route = "update"
    /\ req.body.id # "" /\ req.body.start.kind = "time" /\ req.body.end.kind = "time"
    /\ req.body.description.kind = "text"
    /\ \E k \in 1..Len(req.body.description.chars) : req.body.description.chars[k] \in Digits
    /\ StandaloneRuns(req.body.description.chars) = {}
    /\ req.responses = <<400>>

\* C9 as claimed: the second of two /create-event requests, the first of
\* which had its token accepted, posts its event with the first request's
\* token; the token endpoint has been called once in all.
C9_CachedTokenReused ==
    (req.pc = "awaitCalendar" /\ received.create = 2 /\ accepted.google = 1) =>
        /\ tokenCalls.google = 1
        /\ req.calendarCalls[1].token = 1

\* C9 as amended: every /create-event request calls the token endpoint
\* once, whatever came before, and posts its event with the token of its
\* own call.
C9_ExchangePerRequest ==
    /\ tokenCalls.google = received.create
    /\ req.route = "create" =>
          /\ req.tokenFetches = 1
          /\ req.exchange = received.create
          /\ \A i \in 1..Len(req.calendarCalls) : req.calendarCalls[i].token = req.exchange

\* A second request posts its event with a second token though the first
\* was accepted.
C9_Witness ==
    /\ req.pc = "awaitCalendar" /\ received.create = 2 /\ accepted.google = 1
    /\ tokenCalls.google = 2
    /\ req.calendarCalls[1].token = 2

\* C10 as claimed: a request whose API call was rejected with an
\* authentication error has, when it ends, refreshed its token once more and
\* made the call once more.
C10_OneRefreshOneRetry ==
    (req.pc = "done" /\ req.replies # <<>> /\ req.replies[1] = "unauthorized") =>
        /\ req.tokenFetches = 2
        /\ Len(req.calendarCalls) + Len(req.updateCalls) = 2

\* C10 as amended: a request whose API call is rejected with an
\* authentication error ends there with 500: one token call, one API call,
\* no refresh and no retry.
C10_NoRefreshNoRetry ==
    (req.replies # <<>> /\ req.replies[1] = "unauthorized") =>
        /\ req.pc = "done"
        /\ req.responses = <<500>>
        /\ req.replies = <<"unauthorized">>
        /\ req.tokenFetches = 1
        /\ Len(req.calendarCalls) + Len(req.updateCalls) = 1

\* Each route has had a call rejected and has answered.
C10_Witness ==
    /\ req.pc = "done" /\ req.replies = <<"unauthorized">>
    /\ req.route = "create" /\ Len(req.calendarCalls) = 1
    /\ req.responses = <<500>>

\* The registry updates the request being handled has issued.
SentUpdates == {req.updateCalls[i].payload : i \in 1..Len(req.updateCalls)}

\* The refresh reply the request got does not list the configured tenant.
TenantNotListed(reply) ==
    /\ reply.status # "none"
    /\ ~(reply.status = "ok" /\ reply.hasTokens /\ TENANT_NAME \in reply.tenants)

C12_MissingFieldsAnswer400 ==
    (/\ req.route = "create"
     /\ \/ req.body.recordId.kind = "missing"
        \/ req.body.StartUse.kind = "missing"
        \/ req.body.EndUse.kind = "missing") =>
        /\ req.pc = "done"
        /\ req.responses = <<400>>
        /\ req.tokenFetches = 0
        /\ req.calendarCalls = <<>>

\* C13: an /update-alchemy request that lacks any of id, start, end or
\* description is answered 400, and no registry call (token refresh or
\* update) is made for it.
C13_MissingEventFieldsAnswer400 ==
    (/\ req.route \in {"update", "updatePut"}
     /\ \/ req.body.id = ""
        \/ req.body.start.kind = "missing"
        \/ req.body.end.kind = "missing"
        \/ req.body.description.kind = "missing") =>
        /\ req.pc = "done"
        /\ req.responses = <<400>>
        /\ req.tokenFetches = 0
        /\ req.updateCalls = <<>>

\* C15: every registry update call of /update-alchemy (POST and PUT) is
\* addressed by the record id extracted from the request's own description
\* and writes exactly two fields, StartUse then EndUse, each as one value in
\* one row, row 0.
C15_WritesExactlyStartUseEndUse ==
    \A p \in SentUpdates :
        LET chars == req.body.description.chars
        IN /\ StandaloneRuns(chars) # {}
           /\ p.recordId = RunText(chars, FirstRun(chars))
           /\ Len(p.fields) = 2
           /\ p.fields[1].identifier = "StartUse"
           /\ p.fields[2].identifier = "EndUse"
           /\ \A k \in 1..2 :
                 /\ Len(p.fields[k].rows) = 1
                 /\ p.fields[k].rows[1].row = 0
                 /\ Len(p.fields[k].rows[1].values) = 1

\* An update for record 47 that the registry accepted.
C15_Witness ==
    /\ req.route \in {"update", "updatePut"}
    /\ req.responses = <<200>>
    /\ Len(req.updateCalls) = 1
    /\ req.updateCalls[1].payload.recordId = <<"4", "7">>

\* The display string showing the instant of event time t in t's zone.
IsLocalDisplayOf(value, t) ==
    /\ value.kind = "display"
    /\ t.dateTime.kind = "iso"
    /\ WallOfDisplay(value) =
           InstantOfISO(t.dateTime) + ZoneOffset(t.timeZone, InstantOfISO(t.dateTime))

\* C16: the StartUse and EndUse values /update-alchemy writes to the
\* registry are display strings showing the local wall-clock time of the
\* event's start and end in the event's zone.
C16_WritesLocalDisplayTime ==
    (req.route \in {"update", "updatePut"}) =>
        \A p \in SentUpdates :
            /\ IsLocalDisplayOf(FieldValue(p, 1), req.body.start)
            /\ IsLocalDisplayOf(FieldValue(p, 2), req.body.end)

\* C17: a /create-event request whose StartUse or EndUse is not a display
\* string is answered 400, and no calendar call is made for it.
C17_UnparseableDateAnswers400 ==
    (/\ req.route = "create"
     /\ \/ req.body.StartUse.kind # "display"
        \/ req.body.EndUse.kind # "display") =>
        /\ req.calendarCalls = <<>>
        /\ req.pc = "done" => req.responses = <<400>>

\* C20: a handler whose remote calls have all replied has sent exactly one
\* response, whatever the request body: never none and never two.
C20_ExactlyOneResponse ==
    req.pc \in {"done", "crashed"} => Len(req.responses) = 1

\* C14: in /create-event and /update-alchemy, a request issues at most one
\* create-event or update-record call, and once that call has come back
\* non-2xx the request answers 500: never 200, and never a second call.
C14_NonOkAnswers500Once ==
    /\ Len(req.calendarCalls) + Len(req.updateCalls) <= 1
    /\ (req.replies # <<>> /\ req.replies[1] \in {"unauthorized", "notOk"}) =>
          /\ req.pc = "done"
          /\ req.responses = <<500>>
          /\ Len(req.replies) = 1

\* The handler is waiting for the reply of a remote call.
AwaitingRemote ==
    req.pc \in {"awaitGoogleToken", "awaitCalendar", "awaitAlchemyToken",
                "awaitUpdate", "awaitRefresh", "awaitUpdatePut"}

\* C18: every remote call is bounded by a timeout: a request waiting for a
\* remote call eventually completes (with 500 when the remote side never
\* replies), whether the remote side replies or not.
C18_RemoteCallsTimeOut == AwaitingRemote ~> (req.pc = "done")

\* C19: requests are isolated under concurrency: a step taken for one
\* request (its arrival, or the reply to one of its remote calls) changes
\* nothing of another request: not its remote calls, not its response, not
\* whether it is answered at all.
C19_RequestsIsolated ==
    [][\A i \in Slots : \A j \in Slots :
          (i # j /\ pool'.reqs[j] # pool.reqs[j]) => pool'.reqs[i] = pool.reqs[i]]_vars

=============================================================================
